---------------------------- MODULE Spec2Model ----------------------------
(***************************************************************************)
(* Model of src/cli.py (auto-subtitle): the SRT serializer write_srt with  *)
(* its timestamp formatter, and the stage dispatch of main.                *)
(*                                                                         *)
(* Text is a sequence of one-character strings.  A time in seconds is a    *)
(* Python float (IEEE 754 binary64).  The model holds it as its sign, the  *)
(* whole part of its magnitude and the binary digits of the fractional     *)
(* part, and computes //, %, int(), - and * as the float operations do:    *)
(* exact where the result is a float, rounded to the nearest float with 53 *)
(* significant bits (ties to even) where it is not.                        *)
(***************************************************************************)
EXTENDS Integers, Sequences, FiniteSets, TLC

VARIABLES
    segments,   \* write_srt: the list of segments passed in
    i,          \* write_srt: number of loop iterations completed
    file,       \* write_srt: the sink, as the sequence of file.write arguments
    wpc,        \* write_srt: "idle" | "loop" | "returned" | "raised"
    args,       \* main: parsed command-line flags
    inputExists,\* environment: os.path.isfile(input_file)
    probe,      \* environment: what ffmpeg.probe finds in the input file
    pc,         \* main: the stage about to run
    srt_file,   \* main: local srt_file (None or a path)
    log,        \* main: collaborator calls and prints, in order
    status      \* main: process exit status, Running until the process ends

vars == <<segments, i, file, wpc, args, inputExists, probe, pc, srt_file, log, status>>

srtVars == <<segments, i, file, wpc>>

mainVars == <<args, inputExists, probe, pc, srt_file, log, status>>

----------------------------------------------------------------------------
(* Bounds of the model *)

MaxSegs == 2

MaxTextLen == 6

----------------------------------------------------------------------------
(* Characters and strings *)

NL == "\n"

SP == " "

RightArrow == "→"

SepArrow == <<"-", "-", ">">>

DigitChars == <<"0", "1", "2", "3", "4", "5", "6", "7", "8", "9">>

Digit(d) == DigitChars[d + 1]

DigitVal(c) == CHOOSE d \in 0..9 : DigitChars[d + 1] = c

(* code point of a character, the order Python compares strings by *)
Ord(c) ==
    CASE c = NL -> 10
      [] c = SP -> 32
      [] c = "," -> 44
      [] c = "-" -> 45
      [] c = ":" -> 58
      [] c = ">" -> 62
      [] c = "a" -> 97
      [] c = "b" -> 98
      [] c = RightArrow -> 8594
      [] OTHER -> 48 + DigitVal(c)

RECURSIVE Dec(_)
(* str of a non-negative int *)
Dec(n) == IF n < 10 THEN <<Digit(n)>> ELSE Dec(n \div 10) \o <<Digit(n % 10)>>

RECURSIVE ZeroPad(_, _)
ZeroPad(s, w) == IF Len(s) >= w THEN s ELSE ZeroPad(<<"0">> \o s, w)

(* format spec 0<w>d: zero padded to width w, the sign counted in the width *)
FormatD(n, w) ==
    IF n >= 0 THEN ZeroPad(Dec(n), w) ELSE <<"-">> \o ZeroPad(Dec(-n), w - 1)

(* str.strip(): leading and trailing whitespace removed.  Whitespace is    *)
(* what str.isspace() accepts: U+0009..U+000D, U+001C..U+0020, U+0085,     *)
(* U+00A0, U+1680, U+2000..U+200A, U+2028, U+2029, U+202F, U+205F, U+3000. *)
(* The characters from U+2000 on cannot stand in a string of a module and  *)
(* are written by their code point.                                        *)
Whitespace ==
    {SP, NL, "\t", "\f", "\r", "", "", "", "", "",
     "", " ", " ",
     "U+2000", "U+2001", "U+2002", "U+2003", "U+2004", "U+2005", "U+2006",
     "U+2007", "U+2008", "U+2009", "U+200A", "U+2028", "U+2029", "U+202F",
     "U+205F", "U+3000"}

IsSpace(c) == c \in Whitespace

RECURSIVE LStrip(_)
LStrip(s) == IF s # <<>> /\ IsSpace(Head(s)) THEN LStrip(Tail(s)) ELSE s

RECURSIVE RStrip(_)
RStrip(s) ==
    IF s # <<>> /\ IsSpace(s[Len(s)]) THEN RStrip(SubSeq(s, 1, Len(s) - 1)) ELSE s

Strip(s) == RStrip(LStrip(s))

RECURSIVE ReplaceFirstOnly(_)
(* mutant of ReplaceArrow: str.replace with count=1 *)
ReplaceFirstOnly(s) ==
    IF Len(s) < 3 THEN s
    ELSE IF SubSeq(s, 1, 3) = SepArrow
         THEN <<RightArrow>> \o SubSeq(s, 4, Len(s))
         ELSE <<Head(s)>> \o ReplaceFirstOnly(Tail(s))

RECURSIVE ReplaceArrow(_)
(* str.replace('-->', RightArrow): left to right, non-overlapping *)
ReplaceArrow(s) ==
    IF Len(s) < 3 THEN s
    ELSE IF SubSeq(s, 1, 3) = SepArrow
         THEN <<RightArrow>> \o ReplaceArrow(SubSeq(s, 4, Len(s)))
         ELSE <<Head(s)>> \o ReplaceArrow(Tail(s))

----------------------------------------------------------------------------
(* Python floats *)

(* significant bits of a float *)
MantissaBits == 53

(* A float: sign, whole part of the magnitude, and the binary digits of    *)
(* the fractional part of the magnitude, most significant first.           *)
Time(w, fb) == [neg |-> FALSE, whole |-> w, frac |-> fb]

NegTime(w, fb) == [neg |-> TRUE, whole |-> w, frac |-> fb]

FracIsZero(fb) == \A j \in 1..Len(fb) : fb[j] = 0

(* index of the first 1 of fb, 0 when there is none *)
FirstOne(fb) ==
    IF FracIsZero(fb) THEN 0
    ELSE CHOOSE j \in 1..Len(fb) : fb[j] = 1 /\ \A q \in 1..(j - 1) : fb[q] = 0

LastOne(fb) ==
    IF FracIsZero(fb) THEN 0
    ELSE CHOOSE j \in 1..Len(fb) : fb[j] = 1 /\ \A q \in (j + 1)..Len(fb) : fb[q] = 0

RECURSIVE BitLen(_)
BitLen(n) == IF n = 0 THEN 0 ELSE 1 + BitLen(n \div 2)

(* digit j of 0.fb, zero past its end *)
Bit(fb, j) == IF j <= Len(fb) THEN fb[j] ELSE 0

(* the value of the c-th group of 8 digits of fb; the long multiplication *)
(* below goes 8 binary digits at a time                                    *)
ChunkVal(fb, c) ==
    LET j == 8 * (c - 1)
    IN  128 * Bit(fb, j + 1) + 64 * Bit(fb, j + 2) + 32 * Bit(fb, j + 3)
            + 16 * Bit(fb, j + 4) + 8 * Bit(fb, j + 5) + 4 * Bit(fb, j + 6)
            + 2 * Bit(fb, j + 7) + Bit(fb, j + 8)

(* the 8 binary digits of x < 256 *)
ChunkDigits(x) == [j \in 1..8 |-> (x \div (2 ^ (8 - j))) % 2]

RECURSIVE MulFracFrom(_, _, _, _)
(* groups 1..c of fb times m plus the carry come up from group c + 1 *)
MulFracFrom(fb, m, c, carry) ==
    IF c = 0 THEN [int |-> carry, frac |-> <<>>]
    ELSE LET v == ChunkVal(fb, c) * m + carry
             rest == MulFracFrom(fb, m, c - 1, v \div 256)
         IN  [int |-> rest.int, frac |-> rest.frac \o ChunkDigits(v % 256)]

(* the exact product 0.fb * m: its whole part and its fractional digits *)
MulFrac(fb, m) == MulFracFrom(fb, m, (Len(fb) + 7) \div 8, 0)

(* the exact difference 1 - 0.fb, for fb not zero *)
OneMinus(fb) ==
    [j \in 1..Len(fb) |-> IF j < LastOne(fb) THEN 1 - fb[j] ELSE fb[j]]

(* int() of the float nearest to n + 0.fb: the value is cut to             *)
(* MantissaBits significant bits, round to nearest, ties to even           *)
RoundedFloor(n, fb) ==
    LET kept == IF n > 0 THEN MantissaBits - BitLen(n)
                ELSE FirstOne(fb) + MantissaBits - 1
    IN  IF FracIsZero(fb) \/ Len(fb) <= kept THEN n
        ELSE LET roundBit == fb[kept + 1]
                 sticky == \E j \in (kept + 2)..Len(fb) : fb[j] = 1
                 up == roundBit = 1 /\ (sticky \/ fb[kept] = 1)
             IN  IF up /\ \A j \in 1..kept : fb[j] = 1 THEN n + 1 ELSE n

(* int(seconds // d): float floor division by a whole d.  For a magnitude  *)
(* below 2^53 seconds, which covers every time this model can hold (whole  *)
(* below 2^31), seconds - fmod(seconds, d) and its quotient by d are       *)
(* floats and the result is the exact floor; from 2^53 on the code's       *)
(* intermediate results are rounded and this definition does not apply.    *)
SecondsFloorDiv(t, d) ==
    IF ~t.neg THEN t.whole \div d
    ELSE IF t.whole % d = 0 /\ FracIsZero(t.frac) THEN -(t.whole \div d)
    ELSE -(t.whole \div d) - 1

(* int(seconds % d), on the same range: fmod is exact; for a negative      *)
(* seconds with a non-zero remainder Python adds d to it, and that sum is  *)
(* rounded to a float                                                      *)
SecondsMod(t, d) ==
    IF ~t.neg THEN t.whole % d
    ELSE IF FracIsZero(t.frac) THEN (d - (t.whole % d)) % d
    ELSE RoundedFloor((d - 1) - (t.whole % d), OneMinus(t.frac))

----------------------------------------------------------------------------
(* write_srt.format_timestamp *)

Hours(t) == SecondsFloorDiv(t, 3600)

Minutes(t) == SecondsMod(t, 3600) \div 60

Secs(t) == SecondsMod(t, 60)

(* mutant of Milliseconds: round() in place of int() *)
MillisecondsRounded(t) ==
    LET p == MulFrac(t.frac, 1000)
        m == IF p.frac # <<>> /\ p.frac[1] = 1 THEN p.int + 1 ELSE p.int
    IN  IF t.neg THEN -m ELSE m

(* int((seconds - int(seconds)) * 1000): the difference is exact, the      *)
(* product is rounded to a float, int() truncates toward zero              *)
Milliseconds(t) ==
    LET p == MulFrac(t.frac, 1000)
        m == RoundedFloor(p.int, p.frac)
    IN  IF t.neg THEN -m ELSE m

Timecode(h, m, s, ms) ==
    FormatD(h, 2) \o <<":">> \o FormatD(m, 2) \o <<":">> \o FormatD(s, 2)
        \o <<",">> \o FormatD(ms, 3)

(* mutant of format_timestamp: milliseconds written without padding *)
format_timestamp_unpadded(t) ==
    FormatD(Hours(t), 2) \o <<":">> \o FormatD(Minutes(t), 2) \o <<":">>
        \o FormatD(Secs(t), 2) \o <<",">> \o FormatD(Milliseconds(t), 1)

format_timestamp(t) == Timecode(Hours(t), Minutes(t), Secs(t), Milliseconds(t))

----------------------------------------------------------------------------
(* write_srt *)

(* mutant of EnumIndex: enumerate(segments) without start=1 *)
EnumIndexFromZero(k) == k - 1

(* enumerate(segments, start=1): the index paired with the k-th item *)
EnumIndex(k) == k

SanitizeText(text) == ReplaceArrow(Strip(text))

(* the three file.write arguments of one loop iteration *)
EntryWrites(idx, segment) ==
    << Dec(idx) \o <<NL>>,
       format_timestamp(segment.start) \o <<SP>> \o SepArrow \o <<SP>>
           \o format_timestamp(segment.end) \o <<NL>>,
       SanitizeText(segment.text) \o <<NL, NL>> >>

(* a segment dict; hasText is FALSE when the dict has no 'text' key *)
Seg(s, e, txt) == [start |-> s, end |-> e, hasText |-> TRUE, text |-> txt]

SegNoText(s, e) == [start |-> s, end |-> e, hasText |-> FALSE, text |-> <<>>]


----------------------------------------------------------------------------
(* Values shared by the two specifications *)

None == "None"

(* status while the process has not ended *)
Running == 0 - 1

NoArgs ==
    [extract_subtitles |-> FALSE, audio_to_video |-> FALSE,
     audio_to_video_with_subtitles |-> FALSE, combine |-> FALSE,
     verbose |-> FALSE]

----------------------------------------------------------------------------
(* Inputs of write_srt *)

(* the k binary digits of num / 2^k, for num < 2^31 *)
FracBits(num, k) ==
    [j \in 1..k |-> IF k - j > 30 THEN 0 ELSE (num \div (2 ^ (k - j))) % 2]

(* the binary digits of a fraction written in hexadecimal digits *)
HexBits(h) ==
    [j \in 1..(4 * Len(h)) |-> (h[((j - 1) \div 4) + 1] \div (2 ^ (3 - ((j - 1) % 4)))) % 2]

(* the float s + num / 2^k *)
T(s, num, k) == Time(s, FracBits(num, k))

TextAlphabet == {"-", ">", SP, NL, "a"}

SeqsUpTo(A, n) == UNION {[1..len -> A] : len \in 0..n}

(* whole seconds around the minute, hour and 100-hour boundaries, and a  *)
(* time of 555 hours                                                     *)
WholeSamples == {0, 1, 59, 60, 3599, 3661, 359999, 360000, 360001, 2000000}

(* fractions of a second num / 2^k: 0, 1/4096, 1/16, 1/2, 4095/4096 *)
FracSamples == {<<0, 0>>, <<1, 12>>, <<1, 4>>, <<1, 1>>, <<4095, 12>>}

(* the floats that Python reads from the decimal literals named *)
Float_0_57 == Time(0, HexBits(<<9, 1, 14, 11, 8, 5, 1, 14, 11, 8, 5, 1, 14, 8>>))

Float_1_9999 == Time(1, HexBits(<<15, 15, 15, 9, 7, 2, 4, 7, 4, 5, 3, 8, 15>>))

Float_1_001 == Time(1, HexBits(<<0, 0, 4, 1, 8, 9, 3, 7, 4, 11, 12, 6, 10>>))

Float_0_001 == Time(0, HexBits(<<0, 0, 4, 1, 8, 9, 3, 7, 4, 11, 12, 6, 10, 7, 15>>))

Float_0_009 == Time(0, HexBits(<<0, 2, 4, 13, 13, 2, 15, 1, 10, 9, 15, 11, 14, 7, 6>>))

Float_0_1 == Time(0, HexBits(<<1, 9, 9, 9, 9, 9, 9, 9, 9, 9, 9, 9, 9, 10>>))

Float_59_999 == Time(59, HexBits(<<15, 15, 11, 14, 7, 6, 12, 8, 11, 4, 3, 10>>))

Float_3599_9999 == Time(3599, HexBits(<<15, 15, 15, 9, 7, 2, 4, 7, 4, 5>>))

Float_359999_999 == Time(359999, HexBits(<<15, 15, 11, 14, 7, 6, 12, 8, 12>>))

FloatSamples ==
    {Float_0_57, Float_1_9999, Float_1_001, Float_0_001, Float_0_009, Float_0_1,
     Float_59_999, Float_3599_9999, Float_359999_999}

(* -1.5, -1/4096, -0.57 and -2^-60 *)
NegativeSamples ==
    {NegTime(1, <<1>>), NegTime(0, FracBits(1, 12)),
     NegTime(0, Float_0_57.frac), NegTime(0, FracBits(1, 60))}

TimeSamples ==
    {T(s, f[1], f[2]) : s \in WholeSamples, f \in FracSamples}
        \cup FloatSamples \cup NegativeSamples

BasicSegs ==
    { Seg(T(0, 0, 0), T(1, 1, 1), <<"a">>),
      Seg(T(1, 1, 1), T(3, 1, 2), <<SP, "a", SP, "-", "-", ">", SP, "b", NL>>),
      Seg(T(5, 0, 0), T(2, 0, 0), <<"a">>),
      Seg(NegTime(1, <<1>>), T(1, 0, 0), <<"b">>),
      SegNoText(T(0, 0, 0), T(1, 0, 0)),
      Seg(T(0, 0, 0), T(1, 0, 0), <<SP>>),
      Seg(T(0, 0, 0), T(1, 0, 0), <<"a", NL, NL, "b">>) }

SeqInputs == SeqsUpTo(BasicSegs, MaxSegs)

(* each whitespace character alone, between spaces, and around a letter *)
WhitespaceTexts ==
    UNION {{<<c>>, <<SP, c, SP>>, <<c, "a", c>>} : c \in Whitespace}

TextInputs ==
    {<<Seg(T(0, 0, 0), T(1, 1, 1), txt)>> :
        txt \in SeqsUpTo(TextAlphabet, MaxTextLen) \cup WhitespaceTexts}

TimeInputs == {<<Seg(s, e, <<"a">>)>> : s \in TimeSamples, e \in TimeSamples}

SrtInputs == SeqInputs \cup TextInputs \cup TimeInputs

----------------------------------------------------------------------------
(* write_srt as a loop: one action per iteration, one per way out *)

InitSrt ==
    /\ segments \in SrtInputs
    /\ i = 0
    /\ file = <<>>
    /\ wpc = "loop"
    /\ args = NoArgs
    /\ inputExists = FALSE
    /\ probe = "audio"
    /\ pc = "idle"
    /\ srt_file = None
    /\ log = <<>>
    /\ status = Running

(* lines 41-47: one iteration on a segment that has its text *)
WriteEntry ==
    /\ wpc = "loop"
    /\ i < Len(segments)
    /\ segments[i + 1].hasText
    /\ file' = file \o EntryWrites(EnumIndex(i + 1), segments[i + 1])
    /\ i' = i + 1
    /\ UNCHANGED <<segments, wpc>>
    /\ UNCHANGED mainVars

(* line 44: segment['text'] raises KeyError before the iteration writes *)
RaiseKeyError ==
    /\ wpc = "loop"
    /\ i < Len(segments)
    /\ ~segments[i + 1].hasText
    /\ wpc' = "raised"
    /\ UNCHANGED <<segments, i, file>>
    /\ UNCHANGED mainVars

(* the for loop is exhausted and write_srt returns None *)
ReturnFromLoop ==
    /\ wpc = "loop"
    /\ i = Len(segments)
    /\ wpc' = "returned"
    /\ UNCHANGED <<segments, i, file>>
    /\ UNCHANGED mainVars

NextSrt == WriteEntry \/ RaiseKeyError \/ ReturnFromLoop

SpecSrt == InitSrt /\ [][NextSrt]_vars

----------------------------------------------------------------------------
(* main and the stages it dispatches to *)

SrtPath == "subtitles/input.srt"

RECURSIVE WriteAllFrom(_, _)
(* every iteration of write_srt's loop, from the k-th segment on *)
WriteAllFrom(segs, k) ==
    IF k > Len(segs) THEN <<>>
    ELSE EntryWrites(EnumIndex(k), segs[k]) \o WriteAllFrom(segs, k + 1)

(* what model.transcribe may return: segments with text and 0 <= start <= end *)
WhisperResults ==
    { <<>>,
      <<Seg(T(0, 0, 0), T(1, 1, 1), <<SP, "a">>)>>,
      <<Seg(T(0, 0, 0), T(1, 1, 1), <<SP, "a">>),
        Seg(T(1, 1, 1), T(3, 1, 2), <<SP, "a", SP, "-", "-", ">", SP, "b">>)>> }

Flags ==
    [extract_subtitles : BOOLEAN, audio_to_video : BOOLEAN,
     audio_to_video_with_subtitles : BOOLEAN, combine : BOOLEAN,
     verbose : BOOLEAN]

(* print(...) under `if verbose:` *)
Verbose(msg) == IF args.verbose THEN <<msg>> ELSE <<>>

(* sys.exit(code), or an uncaught exception (code 1) *)
Exit(code, entries) ==
    /\ log' = log \o entries
    /\ status' = code
    /\ pc' = "exited"

(* mutant of SrtMissing: the check of line 198 left out *)
SrtCheckOmitted(srt) == FALSE

(* line 198: srt_file is None *)
SrtMissing(srt) == srt = None

Init ==
    /\ args \in Flags
    /\ inputExists \in BOOLEAN
    /\ probe \in {"audio", "noaudio", "error"}
    /\ pc = "start"
    /\ srt_file = None
    /\ log = <<>>
    /\ status = Running
    /\ segments = <<>>
    /\ i = 0
    /\ file = <<>>
    /\ wpc = "idle"

(* lines 167-170: create_assets_directory, check_file_exists, srt_file = None *)
Startup ==
    /\ pc = "start"
    /\ IF inputExists
       THEN /\ log' = log \o <<"ensure_dir:assets">>
            /\ pc' = "extract"
            /\ status' = status
       ELSE Exit(1, <<"ensure_dir:assets", "print:input file does not exist">>)
    /\ srt_file' = None
    /\ UNCHANGED <<args, inputExists, probe>>
    /\ UNCHANGED srtVars

ExtractRequested ==
    args.extract_subtitles \/ args.combine \/ args.audio_to_video_with_subtitles

(* line 172 false: the extraction stage is not requested *)
SkipExtract ==
    /\ pc = "extract"
    /\ ~ExtractRequested
    /\ pc' = "a2v"
    /\ UNCHANGED <<args, inputExists, probe, srt_file, log, status>>
    /\ UNCHANGED srtVars

(* lines 28-30 under extract_subtitles: ffmpeg.probe raises ffmpeg.Error *)
ExtractProbeError ==
    /\ pc = "extract"
    /\ ExtractRequested
    /\ probe = "error"
    /\ Exit(1, Verbose("print:extraction starts")
                \o <<"call:extract_subtitles", "probe", "print:probe error">>)
    /\ UNCHANGED <<args, inputExists, probe, srt_file>>
    /\ UNCHANGED srtVars

(* lines 50-52: no audio stream, extract_subtitles returns None *)
ExtractNoAudio ==
    /\ pc = "extract"
    /\ ExtractRequested
    /\ probe = "noaudio"
    /\ log' = log \o Verbose("print:extraction starts")
                \o <<"call:extract_subtitles", "probe",
                     "print:no audio track, cannot extract subtitles",
                     "return:extract_subtitles:None">>
                \o Verbose("print:extraction completed")
    /\ srt_file' = None
    /\ pc' = "a2v"
    /\ UNCHANGED <<args, inputExists, probe, status>>
    /\ UNCHANGED srtVars

(* lines 54-59: whisper.load_model or model.transcribe raises, uncaught *)
ExtractWhisperError ==
    /\ pc = "extract"
    /\ ExtractRequested
    /\ probe = "audio"
    /\ \E failing \in {"load_model", "transcribe"} :
          Exit(1, Verbose("print:extraction starts")
                   \o <<"call:extract_subtitles", "probe", "load_model">>
                   \o (IF failing = "load_model" THEN <<>>
                       ELSE Verbose("print:loading model")
                              \o Verbose("print:transcription starts")
                              \o <<"transcribe">>)
                   \o <<"traceback:whisper">>)
    /\ UNCHANGED <<args, inputExists, probe, srt_file>>
    /\ UNCHANGED srtVars

(* lines 54-73: transcription, write_srt into the .srt file, its path returned *)
ExtractOk ==
    /\ pc = "extract"
    /\ ExtractRequested
    /\ probe = "audio"
    /\ \E result \in WhisperResults :
          /\ segments' = result
          /\ file' = WriteAllFrom(result, 1)
          /\ i' = Len(result)
    /\ wpc' = "returned"
    /\ log' = log \o Verbose("print:extraction starts")
                \o <<"call:extract_subtitles", "probe", "load_model">>
                \o Verbose("print:loading model")
                \o Verbose("print:transcription starts")
                \o <<"transcribe", "ensure_dir:subtitles", "write:srt">>
                \o Verbose("print:subtitles saved")
                \o <<"return:extract_subtitles:path">>
                \o Verbose("print:extraction completed")
    /\ srt_file' = SrtPath
    /\ pc' = "a2v"
    /\ UNCHANGED <<args, inputExists, probe, status>>

RenderRequested == args.audio_to_video \/ args.combine

(* line 186 false *)
SkipAudioToVideo ==
    /\ pc = "a2v"
    /\ ~RenderRequested
    /\ pc' = "embed"
    /\ UNCHANGED <<args, inputExists, probe, srt_file, log, status>>
    /\ UNCHANGED srtVars

(* lines 186-193: the name transform_audio_to_video is defined nowhere, so  *)
(* the call raises NameError, uncaught: traceback and exit status 1         *)
AudioToVideo ==
    /\ pc = "a2v"
    /\ RenderRequested
    /\ Exit(1, Verbose("print:audio to video starts")
                \o <<"call:transform_audio_to_video", "traceback:NameError">>)
    /\ UNCHANGED <<args, inputExists, probe, srt_file>>
    /\ UNCHANGED srtVars

(* line 197 false: main returns and the process ends with status 0 *)
SkipEmbed ==
    /\ pc = "embed"
    /\ ~args.audio_to_video_with_subtitles
    /\ Exit(0, <<>>)
    /\ UNCHANGED <<args, inputExists, probe, srt_file>>
    /\ UNCHANGED srtVars

(* lines 198-200 *)
EmbedAbort ==
    /\ pc = "embed"
    /\ args.audio_to_video_with_subtitles
    /\ SrtMissing(srt_file)
    /\ Exit(1, <<"print:no subtitles generated, aborting">>)
    /\ UNCHANGED <<args, inputExists, probe, srt_file>>
    /\ UNCHANGED srtVars

(* lines 201-210 with transform_audio_to_video_with_subtitles, lines 75-132. *)
(* When ffmpeg fails, run() of line 126, called without capture_stderr,      *)
(* raises ffmpeg.Error with stderr = None; line 128 evaluates                *)
(* e.stderr.decode() and raises AttributeError inside the handler: nothing   *)
(* is printed, line 129 is not reached, and the uncaught exception ends the  *)
(* process with a traceback and exit status 1.                               *)
EmbedSubtitles ==
    /\ pc = "embed"
    /\ args.audio_to_video_with_subtitles
    /\ ~SrtMissing(srt_file)
    /\ \E ffmpegOk \in BOOLEAN :
          LET call == Verbose("print:embedding starts")
                        \o <<"call:transform_audio_to_video_with_subtitles", "probe">>
          IN  IF probe = "error"
              THEN Exit(1, call \o <<"print:probe error">>)
              ELSE IF probe = "noaudio"
              THEN Exit(0, call \o <<"print:no audio track, cannot transform">>
                             \o Verbose("print:embedding completed"))
              ELSE IF ffmpegOk
              THEN Exit(0, call \o <<"ensure_dir:output">>
                             \o Verbose("print:transforming")
                             \o <<"print:progress", "ffmpeg_run", "write:mp4">>
                             \o Verbose("print:video generated")
                             \o Verbose("print:embedding completed"))
              ELSE Exit(1, call \o <<"ensure_dir:output">>
                             \o Verbose("print:transforming")
                             \o <<"print:progress", "ffmpeg_run",
                                  "traceback:AttributeError">>)
    /\ UNCHANGED <<args, inputExists, probe, srt_file>>
    /\ UNCHANGED srtVars

Next ==
    \/ Startup
    \/ SkipExtract
    \/ ExtractProbeError
    \/ ExtractNoAudio
    \/ ExtractWhisperError
    \/ ExtractOk
    \/ SkipAudioToVideo
    \/ AudioToVideo
    \/ SkipEmbed
    \/ EmbedAbort
    \/ EmbedSubtitles

Spec == Init /\ [][Next]_vars

----------------------------------------------------------------------------
(* Reading back what write_srt wrote *)

RECURSIVE Flatten(_)
Flatten(ws) == IF ws = <<>> THEN <<>> ELSE Head(ws) \o Flatten(Tail(ws))

(* the document in the sink *)
Doc == Flatten(file)

ContainsArrow(s) == \E p \in 1..(Len(s) - 2) : SubSeq(s, p, p + 2) = SepArrow

CountArrow(s) == Cardinality({p \in 1..(Len(s) - 2) : SubSeq(s, p, p + 2) = SepArrow})

FirstSpace(line) ==
    CHOOSE p \in 1..Len(line) : line[p] = SP /\ \A q \in 1..(p - 1) : line[q] # SP

(* the timecode line is <start> --> <end>\n *)
StartField(line) == SubSeq(line, 1, FirstSpace(line) - 1)

EndField(line) == SubSeq(line, FirstSpace(line) + 5, Len(line) - 1)

IndexLine(k) == file[3 * k - 2]

TimecodeLine(k) == file[3 * k - 1]

TextLine(k) == file[3 * k]

RECURSIVE ParseNat(_)
ParseNat(s) ==
    IF Len(s) = 1 THEN DigitVal(s[1])
    ELSE 10 * ParseNat(SubSeq(s, 1, Len(s) - 1)) + DigitVal(s[Len(s)])

RECURSIVE LexLE(_, _)
(* a <= b in the order Python compares strings by *)
LexLE(a, b) ==
    IF a = <<>> THEN TRUE
    ELSE IF b = <<>> THEN FALSE
    ELSE IF Ord(Head(a)) < Ord(Head(b)) THEN TRUE
    ELSE IF Ord(Head(a)) > Ord(Head(b)) THEN FALSE
    ELSE LexLE(Tail(a), Tail(b))

RECURSIVE SplitLinesFrom(_, _)
SplitLinesFrom(s, cur) ==
    IF s = <<>> THEN (IF cur = <<>> THEN <<>> ELSE <<cur>>)
    ELSE IF Head(s) = NL THEN <<cur>> \o SplitLinesFrom(Tail(s), <<>>)
    ELSE SplitLinesFrom(Tail(s), cur \o <<Head(s)>>)

(* the lines of a document, without their line ends *)
SplitLines(s) == SplitLinesFrom(s, <<>>)

Malformed == 0 - 1

RECURSIVE CountEntries(_, _)
(* The number of entries of a document read as index line, timecode line,   *)
(* one or more non-blank text lines, one blank line, repeated from index k; *)
(* Malformed when the lines do not have that form.                          *)
CountEntries(lines, k) ==
    IF lines = <<>> THEN 0
    ELSE IF Len(lines) < 4 THEN Malformed
    ELSE IF lines[1] # Dec(k) THEN Malformed
    ELSE IF CountArrow(lines[2]) # 1 THEN Malformed
    ELSE IF lines[3] = <<>> THEN Malformed
    ELSE IF \A b \in 4..Len(lines) : lines[b] # <<>> THEN Malformed
    ELSE LET b == CHOOSE c \in 4..Len(lines) :
                      lines[c] = <<>> /\ \A d \in 4..(c - 1) : lines[d] # <<>>
             rest == CountEntries(SubSeq(lines, b + 1, Len(lines)), k + 1)
         IN  IF rest = Malformed THEN Malformed ELSE 1 + rest

(* 0.x <= 0.y *)
FracLE(x, y) ==
    \A j \in 1..(Len(x) + Len(y)) :
        (\A q \in 1..(j - 1) : Bit(x, q) = Bit(y, q)) => Bit(x, j) <= Bit(y, j)

MagLE(a, b) == a.whole < b.whole \/ (a.whole = b.whole /\ FracLE(a.frac, b.frac))

(* a <= b as floats *)
TimeLE(a, b) ==
    IF a.neg /\ ~b.neg THEN TRUE
    ELSE IF ~a.neg /\ b.neg THEN FALSE
    ELSE IF a.neg THEN MagLE(b, a)
    ELSE MagLE(a, b)

(* a segment as the data model has it: text present, 0 <= start <= end *)
ValidSegment(seg) == seg.hasText /\ ~seg.start.neg /\ TimeLE(seg.start, seg.end)

(* floor((s - floor(s)) * 1000) in exact arithmetic, one decimal digit of   *)
(* the fraction at a time, and the rest of the product after its floor      *)
ExactThousandths(t) ==
    LET d1 == MulFrac(t.frac, 10)
        d2 == MulFrac(d1.frac, 10)
        d3 == MulFrac(d2.frac, 10)
    IN  [ms |-> 100 * d1.int + 10 * d2.int + d3.int, rest |-> d3.frac]

TwoDigits(n) == <<Digit(n \div 10), Digit(n % 10)>>

ThreeDigits(n) == <<Digit(n \div 100), Digit((n \div 10) % 10), Digit(n % 10)>>

(* the reference rendering of whole seconds and ms milliseconds, from the   *)
(* whole number of milliseconds                                             *)
RefTimecode(whole, millis) ==
    LET ms == whole * 1000 + millis
        h == ms \div 3600000
    IN  (IF h < 100 THEN TwoDigits(h) ELSE Dec(h)) \o <<":">>
            \o TwoDigits((ms \div 60000) % 60) \o <<":">>
            \o TwoDigits((ms \div 1000) % 60) \o <<",">>
            \o ThreeDigits(ms % 1000)

(* the claim's reference: every unit the exact floor *)
ExactTimecode(t) == RefTimecode(t.whole, ExactThousandths(t).ms)

(* the exact product is less than half a unit in the last place of a float *)
(* below the next whole number: its first 54 - BitLen(floor) fractional     *)
(* digits are all 1                                                         *)
WithinHalfUlpBelowNext(e) ==
    LET n == MantissaBits + 1 - BitLen(e.ms)
    IN  Len(e.rest) >= n /\ \A j \in 1..n : e.rest[j] = 1

(* the reference with the milliseconds as the float product delivers them *)
FloatTimecode(t) ==
    LET e == ExactThousandths(t)
    IN  RefTimecode(t.whole, IF WithinHalfUlpBelowNext(e) THEN e.ms + 1 ELSE e.ms)

Chars_00_00_00_570 == <<"0", "0", ":", "0", "0", ":", "0", "0", ",", "5", "7", "0">>

Chars_00_00_01_999 == <<"0", "0", ":", "0", "0", ":", "0", "1", ",", "9", "9", "9">>

Chars_01_01_01_500 == <<"0", "1", ":", "0", "1", ":", "0", "1", ",", "5", "0", "0">>

Chars_100_00_00_062 == <<"1", "0", "0", ":", "0", "0", ":", "0", "0", ",", "0", "6", "2">>

----------------------------------------------------------------------------
(* Claims about write_srt, checked under SpecSrt *)

(* C1: for N input segments write_srt writes exactly N entries; the k-th   *)
(* entry carries index k and the timecodes and text of the k-th segment,   *)
(* so the indices are 1..N in input order without gap, repeat or reorder.  *)
C1_IndexContiguity ==
    /\ Len(file) = 3 * i
    /\ \A k \in 1..i :
        /\ IndexLine(k)[Len(IndexLine(k))] = NL
        /\ ParseNat(SubSeq(IndexLine(k), 1, Len(IndexLine(k)) - 1)) = k
        /\ TimecodeLine(k) = format_timestamp(segments[k].start) \o <<SP>> \o SepArrow
                                \o <<SP>> \o format_timestamp(segments[k].end) \o <<NL>>
        /\ TextLine(k) = SanitizeText(segments[k].text) \o <<NL, NL>>
    /\ (wpc = "returned" => i = Len(segments))
    /\ (wpc = "raised" => \E k \in 1..Len(segments) : ~segments[k].hasText)

C1_Witness ==
    /\ wpc = "returned"
    /\ i = 2
    /\ segments[1] # segments[2]
    /\ IndexLine(2) = <<"2", NL>>

(* C2 as stated: for s >= 0 the timecode written equals the reference      *)
(* rendering: every unit the exact floor, never rounded, hours at least 2  *)
(* digits and never wrapped, minutes and seconds 2 digits, milliseconds 3. *)
C2_TimecodeReference_Original ==
    \A k \in 1..i :
        /\ ~segments[k].start.neg =>
              StartField(TimecodeLine(k)) = ExactTimecode(segments[k].start)
        /\ ~segments[k].end.neg =>
              EndField(TimecodeLine(k)) = ExactTimecode(segments[k].end)

(* C2 amended: for 0 <= s < 2^31 seconds hours, minutes and seconds are    *)
(* the exact floors, rendered as stated with the hours never wrapped (555  *)
(* hours reached); the milliseconds are the floor of the                   *)
(* product (s - floor(s)) * 1000 as the float multiplication delivers it,  *)
(* rounded to the nearest float: the exact floor, except that it is the    *)
(* next whole number when the exact product is less than half a unit in    *)
(* the last place below it (0.57 gives 00:00:00,570).  The milliseconds    *)
(* are never rounded to the nearest millisecond: 1.9999 gives 00:00:01,999 *)
(* and 3661.5 gives 01:01:01,500.                                          *)
C2_TimecodeReference ==
    \A k \in 1..i :
        /\ ~segments[k].start.neg =>
              StartField(TimecodeLine(k)) = FloatTimecode(segments[k].start)
        /\ ~segments[k].end.neg =>
              EndField(TimecodeLine(k)) = FloatTimecode(segments[k].end)
        /\ segments[k].start = Float_0_57 =>
              StartField(TimecodeLine(k)) = Chars_00_00_00_570
        /\ segments[k].start = Float_1_9999 =>
              StartField(TimecodeLine(k)) = Chars_00_00_01_999
        /\ segments[k].start = T(3661, 1, 1) =>
              StartField(TimecodeLine(k)) = Chars_01_01_01_500
        /\ segments[k].start = T(360000, 1, 4) =>
              StartField(TimecodeLine(k)) = Chars_100_00_00_062

C2_Witness ==
    /\ i = 1
    /\ segments[1].start = Float_0_57
    /\ segments[1].end = Float_1_9999
    /\ ExactThousandths(segments[1].start).ms = 569
    /\ TimecodeLine(1) = Chars_00_00_00_570 \o <<SP>> \o SepArrow \o <<SP>>
                            \o Chars_00_00_01_999 \o <<NL>>

(* C3: the text written for an entry never contains '-->'; the only '-->'  *)
(* of an entry is the separator on its timecode line.                      *)
C3_SeparatorSafety ==
    \A k \in 1..i :
        /\ ~ContainsArrow(TextLine(k))
        /\ CountArrow(IndexLine(k) \o TimecodeLine(k) \o TextLine(k)) = 1

C3_Witness ==
    /\ i = 1
    /\ segments[1].text = <<"-", "-", ">", "-", "-", ">">>
    /\ TextLine(1) = <<RightArrow, RightArrow, NL, NL>>

(* C4: write_srt on a sequence holding an invalid segment (end < start, a  *)
(* negative time, no text) fails: it does not return normally, no invalid  *)
(* segment is written as an entry, and a failed call leaves no document.   *)
C4_InvalidSegmentRejected ==
    /\ (wpc = "returned" => \A k \in 1..Len(segments) : ValidSegment(segments[k]))
    /\ \A k \in 1..i : ValidSegment(segments[k])
    /\ (wpc = "raised" => file = <<>>)

(* C5: for any free-form text the document is a repetition of index line,  *)
(* timecode line, text line(s), blank line, with exactly one blank line    *)
(* between entries and nothing before the first or after the last.         *)
C5_DocumentShape ==
    wpc = "returned" => CountEntries(SplitLines(Doc), 1) = Len(segments)

(* C6 as stated: for end >= start >= 0, with no bound on the hours, the    *)
(* end timecode is lexicographically >= the start timecode.                *)
C6_LexMonotonic_Original ==
    \A k \in 1..i :
        (~segments[k].start.neg /\ TimeLE(segments[k].start, segments[k].end))
            => LexLE(StartField(TimecodeLine(k)), EndField(TimecodeLine(k)))

(* number of decimal digits of the whole hours of t, at least 2 *)
HourDigits(t) ==
    LET h == t.whole \div 3600 IN IF h < 10 THEN 2 ELSE Len(Dec(h))

(* C6 amended: for end >= start >= 0, both below 2^31 seconds, whose hours *)
(* take the same number of digits (always so when both are below 100       *)
(* hours), the end timecode is lexicographically >= the start timecode.    *)
C6_LexMonotonic ==
    \A k \in 1..i :
        ( /\ ~segments[k].start.neg
          /\ TimeLE(segments[k].start, segments[k].end)
          /\ HourDigits(segments[k].start) = HourDigits(segments[k].end) )
            => LexLE(StartField(TimecodeLine(k)), EndField(TimecodeLine(k)))

C6_Witness ==
    /\ i = 1
    /\ segments[1].start = T(360000, 1, 4)
    /\ segments[1].end = T(360000, 1, 1)
    /\ HourDigits(segments[1].start) = 3
    /\ ~LexLE(EndField(TimecodeLine(1)), StartField(TimecodeLine(1)))

----------------------------------------------------------------------------
(* Claims about main, checked under Spec *)

Logged(e) == \E p \in 1..Len(log) : log[p] = e

(* an entry of the log that the user reads: a print or a traceback *)
IsMessage(e) ==
    e \in {"print:input file does not exist", "print:probe error",
           "print:no audio track, cannot extract subtitles",
           "print:no audio track, cannot transform",
           "print:no subtitles generated, aborting", "traceback:AttributeError",
           "traceback:whisper", "traceback:NameError"}

AudioFlagGiven ==
    \/ args.extract_subtitles
    \/ args.audio_to_video
    \/ args.audio_to_video_with_subtitles
    \/ args.combine

(* C7: a run ends with status 1 when the input file does not exist, when   *)
(* it has no audio track and an audio-processing flag was given, or when   *)
(* the media transform fails; every other run ends with status 0.  Runs in *)
(* which the probe or the transcription itself raises are left aside.      *)
C7_ExitStatus ==
    (pc = "exited" /\ probe # "error" /\ ~Logged("traceback:whisper")) =>
        IF \/ ~inputExists
           \/ (probe = "noaudio" /\ AudioFlagGiven)
           \/ Logged("traceback:AttributeError")
        THEN status = 1
        ELSE status = 0

(* C8: the embedding stage is called only after extract_subtitles returned *)
(* the path of a subtitle file written in this run; with                   *)
(* --audio_to_video_with_subtitles and no subtitle file, the embedding is  *)
(* skipped, a message is printed and the process ends with status 1.       *)
C8_EmbedNeedsSubtitles ==
    /\ \A p \in 1..Len(log) :
          log[p] = "call:transform_audio_to_video_with_subtitles" =>
              /\ srt_file = SrtPath
              /\ \E w \in 1..(p - 1) : \E r \in (w + 1)..(p - 1) :
                    /\ log[w] = "write:srt"
                    /\ log[r] = "return:extract_subtitles:path"
    /\ ( /\ pc = "exited"
         /\ args.audio_to_video_with_subtitles
         /\ ~Logged("write:srt") )
          => /\ ~Logged("call:transform_audio_to_video_with_subtitles")
             /\ ~Logged("ffmpeg_run")
             /\ status = 1
             /\ \E p \in 1..Len(log) : IsMessage(log[p])

C8_Witness ==
    /\ pc = "exited"
    /\ args.audio_to_video_with_subtitles
    /\ inputExists
    /\ probe = "noaudio"
    /\ Logged("return:extract_subtitles:None")
    /\ Logged("print:no subtitles generated, aborting")
    /\ status = 1

(* C9: a run with --combine or --audio_to_video on an existing input that  *)
(* has an audio track, and whose collaborators do not fail, performs the   *)
(* audio-to-video rendering and ends with status 0.                        *)
C9_RenderStageRuns ==
    ( /\ pc = "exited"
      /\ args.audio_to_video \/ args.combine
      /\ inputExists
      /\ probe = "audio"
      /\ ~Logged("traceback:whisper")
      /\ ~Logged("traceback:AttributeError") )
       => /\ status = 0
          /\ Logged("call:transform_audio_to_video")
          /\ ~Logged("traceback:NameError")

(* C10: with no audio stream every requested audio-dependent operation is  *)
(* reported and skipped with no effect, and the run ends with status 1     *)
(* only when --audio_to_video_with_subtitles needed the skipped extraction.*)
C10_NoAudioSkip ==
    (inputExists /\ probe = "noaudio") =>
        /\ ~Logged("load_model")
        /\ ~Logged("transcribe")
        /\ ~Logged("ensure_dir:subtitles")
        /\ ~Logged("ensure_dir:output")
        /\ ~Logged("write:srt")
        /\ ~Logged("write:mp4")
        /\ srt_file = None
        /\ file = <<>>
        /\ (Logged("call:extract_subtitles") =>
               Logged("print:no audio track, cannot extract subtitles"))
        /\ (pc = "exited" /\ status = 1 => args.audio_to_video_with_subtitles)

=============================================================================
